---- MODULE Spec2Model ----
(***************************************************************************)
(* RolloutStorage of habitat_baselines/common/rollout_storage.py: the      *)
(* experience buffer of an on-policy trainer.  Every leaf of the buffer    *)
(* tree is a tensor [numsteps+1, num_envs, ...]; a cell of the model is    *)
(* the feature vector of one (timestep, simulator) pair, abstracted to one *)
(* value.  Floating-point leaves hold small integers, on which the float   *)
(* arithmetic of compute_returns is exact; masks holds booleans.           *)
(***************************************************************************)
EXTENDS Integers, Sequences, FiniteSets, TLC

VARIABLES
    num_envs,            \* self._num_envs
    is_double_buffered,  \* self.is_double_buffered
    buffers,             \* self.buffers: leaf -> timestep -> simulator -> value
    steps,               \* self.steps: one cursor per buffer half
    call,                \* the call that was made last (history)
    err,                 \* how the last call ended: "ok" or the exception raised
    hist,                \* how many calls of each kind were made (history)
    gen,                 \* the generator object recurrent_generator returned last
    yielded,             \* the simulator indices of the batches it has yielded
    batch,               \* the batch it yielded last
    warned,              \* number of warnings emitted
    threads              \* the threads stepping the halves concurrently, one per half

genvars == <<gen, yielded, batch, warned>>

vars == <<num_envs, is_double_buffered, buffers, steps, call, err, hist, gen, yielded, batch, warned, threads>>

----------------------------------------------------------------------------
(* Bounds of the model *)

numsteps == 2        \* constructor argument numsteps (T)
MaxEnvs == 2         \* largest constructor argument num_envs
MaxInserts == 2      \* insert calls of one behaviour of Spec
MaxIndex == 2        \* buffer_index ranges over -(MaxIndex+1)..MaxIndex
MaxSimulators == 4   \* largest num_envs of SpecGen
MaxCalls == 2        \* calls one thread of SpecThreads makes

----------------------------------------------------------------------------
(* The buffer tree *)

Leaves == {"observations", "recurrent_hidden_states", "rewards", "value_preds",
           "returns", "action_log_probs", "actions", "prev_actions", "masks"}

ZeroOf(leaf) == IF leaf = "masks" THEN FALSE ELSE 0

TimeSteps == 0..numsteps

nbuffers == IF is_double_buffered THEN 2 ELSE 1

\* the step property without its assertion
StepUnchecked == TRUE

\* the assertion of the step property
step_ok == \A i \in DOMAIN steps : steps[i] = steps[0]

Min(a, b) == IF a < b THEN a ELSE b

Max(a, b) == IF a > b THEN a ELSE b

\* Python's int() of the true division a / d for d > 0: truncation toward 0
IntDiv(a, d) == IF a >= 0 THEN a \div d ELSE -((-a) \div d)

\* one bound of a Python slice resolved against a dimension of size n
SliceBound(i, n) == IF i < 0 THEN Max(i + n, 0) ELSE Min(i, n)

\* the indices selected by slice(start, stop) on a dimension of size n
SliceIndices(start, stop, n) == SliceBound(start, n)..(SliceBound(stop, n) - 1)

\* list indexing that always denotes the first element
ListIndexFirst(i, n) == 0

\* list indexing: the position that index i of a list of length n denotes,
\* or -1 when Python raises IndexError
ListIndex(i, n) == IF i >= 0 /\ i < n THEN i
                   ELSE IF i < 0 /\ i >= -n THEN i + n
                   ELSE -1

\* env_slice without the split into halves
EnvSliceWhole(buffer_index) == [start |-> 0, stop |-> num_envs]

\* env_slice of insert
EnvSlice(buffer_index) ==
    [start |-> IntDiv(buffer_index * num_envs, nbuffers),
     stop  |-> IntDiv((buffer_index + 1) * num_envs, nbuffers)]

EnvIndices(sl) == SliceIndices(sl.start, sl.stop, num_envs)

\* first simulator of the slice once resolved
EnvStart(sl) == SliceBound(sl.start, num_envs)

\* the simulators owned by half b
Owned(b) == {n \in 0..(num_envs - 1) :
               n >= b * (num_envs \div nbuffers) /\ n < (b + 1) * (num_envs \div nbuffers)}

TensorSize(v) == Cardinality(DOMAIN v)

\* TensorDict.set((t, env_slice), values, strict=False): every leaf named in
\* values gets values[leaf] copied into [t, env_slice]; an integer t outside
\* the time dimension raises IndexError, a tensor that neither matches the
\* slice nor broadcasts from size 1 raises RuntimeError; nothing is written
\* when it raises.
TensorDictSet(buf, t, sl, values) ==
    LET idx == EnvIndices(sl)
        sz  == Cardinality(idx)
        bad == {k \in DOMAIN values : TensorSize(values[k]) # sz /\ TensorSize(values[k]) # 1}
    IN  IF t \notin TimeSteps THEN [err |-> "IndexError", buf |-> buf]
        ELSE IF bad # {} THEN [err |-> "RuntimeError", buf |-> buf]
        ELSE [err |-> "ok",
              buf |-> [leaf \in Leaves |->
                         IF leaf \in DOMAIN values
                         THEN [buf[leaf] EXCEPT ![t] =
                                 [n \in 0..(num_envs - 1) |->
                                    IF n \in idx
                                    THEN IF TensorSize(values[leaf]) = 1
                                         THEN values[leaf][0]
                                         ELSE values[leaf][n - EnvStart(sl)]
                                    ELSE @[n]]]
                         ELSE buf[leaf]]]

----------------------------------------------------------------------------
(* Calls and their arguments *)

ArgNames == {"observations", "recurrent_hidden_states", "actions",
             "action_log_probs", "value_preds", "rewards", "masks"}

NoArgs == [a \in {} |-> 0]

NoCall == [op |-> "init", buffer_index |-> 0, args |-> NoArgs,
           next_value |-> NoArgs, use_gae |-> FALSE, gamma |-> 0, tau |-> 0,
           num_mini_batch |-> 0]

InsertCall(b, args) == [NoCall EXCEPT !.op = "insert", !.buffer_index = b, !.args = args]

\* next_step with prev_actions fed from action_log_probs
NextStepPrevFromLogProbs(args) ==
    [k \in ({"observations", "recurrent_hidden_states", "masks"} \cap DOMAIN args)
          \cup (IF "action_log_probs" \in DOMAIN args THEN {"prev_actions"} ELSE {}) |->
        IF k = "prev_actions" THEN args["action_log_probs"] ELSE args[k]]

\* next_step of insert after the None entries are dropped
NextStep(args) ==
    [k \in ({"observations", "recurrent_hidden_states", "masks"} \cap DOMAIN args)
          \cup (IF "actions" \in DOMAIN args THEN {"prev_actions"} ELSE {}) |->
        IF k = "prev_actions" THEN args["actions"] ELSE args[k]]

\* current_step with value_preds among its entries
CurrentStepWithValuePreds(args) ==
    [k \in {"actions", "action_log_probs", "value_preds", "rewards"} \cap DOMAIN args |-> args[k]]

\* current_step without actions
CurrentStepNoActions(args) ==
    [k \in {"action_log_probs", "rewards"} \cap DOMAIN args |-> args[k]]

\* current_step of insert after the None entries are dropped
CurrentStep(args) ==
    [k \in {"actions", "action_log_probs", "rewards"} \cap DOMAIN args |-> args[k]]

----------------------------------------------------------------------------
(* Construction *)

NoHist == [inserts |-> 0, computes |-> 0, generators |-> 0, probed |-> FALSE]

NoGen == [pc |-> "none", num_mini_batch |-> 0, advantages |-> <<>>, chunks |-> <<>>, pos |-> 0]

\* __init__ with num_envs in 1..maxN: the assertion on num_envs, zeroed
\* leaves, cursors at 0
Construct(maxN) ==
    /\ num_envs \in 1..maxN
    /\ is_double_buffered \in BOOLEAN
    /\ num_envs % nbuffers = 0
    /\ buffers = [leaf \in Leaves |-> [t \in TimeSteps |-> [n \in 0..(num_envs - 1) |-> ZeroOf(leaf)]]]
    /\ steps = [i \in 0..(nbuffers - 1) |-> 0]
    /\ call = NoCall
    /\ err = "ok"
    /\ hist = NoHist
    /\ gen = NoGen
    /\ yielded = <<>>
    /\ batch = <<>>
    /\ warned = 0
    /\ threads = <<>>

Init == Construct(MaxEnvs)

----------------------------------------------------------------------------
(* insert *)

\* insert writing next_step at the cursor itself
InsertWritesSameStep(buf, st, b, args) ==
    LET li  == ListIndex(b, nbuffers)
        sl  == EnvSlice(b)
        nxt == NextStep(args)
        cur == CurrentStep(args)
        r1  == IF DOMAIN nxt = {} THEN [err |-> "ok", buf |-> buf]
               ELSE IF li = -1 THEN [err |-> "IndexError", buf |-> buf]
               ELSE TensorDictSet(buf, st[li], sl, nxt)
        r2  == IF r1.err # "ok" THEN r1
               ELSE IF DOMAIN cur = {} THEN r1
               ELSE IF li = -1 THEN [err |-> "IndexError", buf |-> r1.buf]
               ELSE TensorDictSet(r1.buf, st[li], sl, cur)
    IN  r2

\* the two writes of insert, in the order the code makes them; each reads
\* self.steps[buffer_index] only when its group is not empty
InsertWritesOn(buf, st, b, args) ==
    LET li  == ListIndex(b, nbuffers)
        sl  == EnvSlice(b)
        nxt == NextStep(args)
        cur == CurrentStep(args)
        r1  == IF DOMAIN nxt = {} THEN [err |-> "ok", buf |-> buf]
               ELSE IF li = -1 THEN [err |-> "IndexError", buf |-> buf]
               ELSE TensorDictSet(buf, st[li] + 1, sl, nxt)
        r2  == IF r1.err # "ok" THEN r1
               ELSE IF DOMAIN cur = {} THEN r1
               ELSE IF li = -1 THEN [err |-> "IndexError", buf |-> r1.buf]
               ELSE TensorDictSet(r1.buf, st[li], sl, cur)
    IN  r2

\* insert on the storage as it is
InsertWrites(b, args) == InsertWritesOn(buffers, steps, b, args)

Insert(b, args) ==
    /\ call' = InsertCall(b, args)
    /\ IF ~is_double_buffered /\ b # 0
       THEN /\ err' = "AssertionError"
            /\ buffers' = buffers
       ELSE /\ err' = InsertWrites(b, args).err
            /\ buffers' = InsertWrites(b, args).buf
    /\ UNCHANGED <<num_envs, is_double_buffered, steps>>

----------------------------------------------------------------------------
(* advance_rollout *)

AdvanceCall(b) == [NoCall EXCEPT !.op = "advance_rollout", !.buffer_index = b]

\* advance_rollout moving every cursor
AdvanceRolloutBoth(buffer_index) ==
    /\ call' = AdvanceCall(buffer_index)
    /\ err' = "ok"
    /\ steps' = [i \in DOMAIN steps |-> steps[i] + 1]
    /\ UNCHANGED <<num_envs, is_double_buffered, buffers>>

AdvanceRollout(buffer_index) ==
    /\ call' = AdvanceCall(buffer_index)
    /\ IF ListIndex(buffer_index, nbuffers) = -1
       THEN /\ err' = "IndexError"
            /\ steps' = steps
       ELSE /\ err' = "ok"
            /\ steps' = [steps EXCEPT ![ListIndex(buffer_index, nbuffers)] = @ + 1]
    /\ UNCHANGED <<num_envs, is_double_buffered, buffers>>

----------------------------------------------------------------------------
(* after_update *)

AfterUpdateCall == [NoCall EXCEPT !.op = "after_update"]

\* the slide taking the timestep after k
SlideFromNext(buf, k) == [leaf \in Leaves |-> [buf[leaf] EXCEPT ![0] = buf[leaf][Min(k + 1, numsteps)]]]

\* self.buffers[0] = self.buffers[k]: TensorDict item access, every leaf alike
Slide(buf, k) == [leaf \in Leaves |-> [buf[leaf] EXCEPT ![0] = buf[leaf][k]]]

AfterUpdate ==
    /\ call' = AfterUpdateCall
    /\ IF ~step_ok
       THEN /\ err' = "AssertionError"
            /\ UNCHANGED <<buffers, steps>>
       ELSE IF steps[0] \notin TimeSteps
       THEN /\ err' = "IndexError"
            /\ UNCHANGED <<buffers, steps>>
       ELSE /\ err' = "ok"
            /\ buffers' = Slide(buffers, steps[0])
            /\ steps' = [i \in DOMAIN steps |-> 0]
    /\ UNCHANGED <<num_envs, is_double_buffered>>

----------------------------------------------------------------------------
(* compute_returns *)

ComputeCall(nv, use_gae, gamma, tau) ==
    [NoCall EXCEPT !.op = "compute_returns", !.next_value = nv,
                   !.use_gae = use_gae, !.gamma = gamma, !.tau = tau]

Envs == 0..(num_envs - 1)

\* a boolean mask as the factor it is in a product
AsNumber(m) == IF m THEN 1 ELSE 0

\* the use_gae loop with no mask on value_preds[t + 1]
RECURSIVE GaeLoopUnmaskedDelta(_, _, _, _, _)
GaeLoopUnmaskedDelta(buf, gae, t, gamma, tau) ==
    IF t < 0 THEN buf
    ELSE LET delta == [n \in Envs |->
                         buf["rewards"][t][n]
                         + gamma * buf["value_preds"][t + 1][n]
                         - buf["value_preds"][t][n]]
             gae2  == [n \in Envs |->
                         delta[n] + gamma * tau * gae[n] * AsNumber(buf["masks"][t + 1][n])]
             buf2  == [buf EXCEPT !["returns"][t] = [n \in Envs |-> gae2[n] + buf["value_preds"][t][n]]]
         IN  GaeLoopUnmaskedDelta(buf2, gae2, t - 1, gamma, tau)

\* the use_gae loop with no mask on the gae it carries over
RECURSIVE GaeLoopUnmaskedGae(_, _, _, _, _)
GaeLoopUnmaskedGae(buf, gae, t, gamma, tau) ==
    IF t < 0 THEN buf
    ELSE LET delta == [n \in Envs |->
                         buf["rewards"][t][n]
                         + gamma * buf["value_preds"][t + 1][n] * AsNumber(buf["masks"][t + 1][n])
                         - buf["value_preds"][t][n]]
             gae2  == [n \in Envs |-> delta[n] + gamma * tau * gae[n]]
             buf2  == [buf EXCEPT !["returns"][t] = [n \in Envs |-> gae2[n] + buf["value_preds"][t][n]]]
         IN  GaeLoopUnmaskedGae(buf2, gae2, t - 1, gamma, tau)

\* the loop of the use_gae branch from index t down to 0; gae is the value
\* the variable gae holds when the iteration for t starts
RECURSIVE GaeLoop(_, _, _, _, _)
GaeLoop(buf, gae, t, gamma, tau) ==
    IF t < 0 THEN buf
    ELSE LET delta == [n \in Envs |->
                         buf["rewards"][t][n]
                         + gamma * buf["value_preds"][t + 1][n] * AsNumber(buf["masks"][t + 1][n])
                         - buf["value_preds"][t][n]]
             gae2  == [n \in Envs |->
                         delta[n] + gamma * tau * gae[n] * AsNumber(buf["masks"][t + 1][n])]
             buf2  == [buf EXCEPT !["returns"][t] = [n \in Envs |-> gae2[n] + buf["value_preds"][t][n]]]
         IN  GaeLoop(buf2, gae2, t - 1, gamma, tau)

\* the other loop clearing the rewards it has read
RECURSIVE ReturnLoopClearsRewards(_, _, _)
ReturnLoopClearsRewards(buf, t, gamma) ==
    IF t < 0 THEN buf
    ELSE ReturnLoopClearsRewards(
           [buf EXCEPT !["returns"][t] =
                         [n \in Envs |->
                            gamma * buf["returns"][t + 1][n] * AsNumber(buf["masks"][t + 1][n])
                            + buf["rewards"][t][n]],
                       !["rewards"][t] = [n \in Envs |-> 0]],
           t - 1, gamma)

\* the other loop reading rewards[t + 1]
RECURSIVE ReturnLoopRewardNext(_, _, _)
ReturnLoopRewardNext(buf, t, gamma) ==
    IF t < 0 THEN buf
    ELSE ReturnLoopRewardNext(
           [buf EXCEPT !["returns"][t] =
              [n \in Envs |->
                 gamma * buf["returns"][t + 1][n] * AsNumber(buf["masks"][t + 1][n])
                 + buf["rewards"][t + 1][n]]],
           t - 1, gamma)

\* the other loop with no mask on returns[t + 1]
RECURSIVE ReturnLoopNoMask(_, _, _)
ReturnLoopNoMask(buf, t, gamma) ==
    IF t < 0 THEN buf
    ELSE ReturnLoopNoMask(
           [buf EXCEPT !["returns"][t] =
              [n \in Envs |-> gamma * buf["returns"][t + 1][n] + buf["rewards"][t][n]]],
           t - 1, gamma)

\* the loop of the other branch from index t down to 0
RECURSIVE ReturnLoop(_, _, _)
ReturnLoop(buf, t, gamma) ==
    IF t < 0 THEN buf
    ELSE ReturnLoop(
           [buf EXCEPT !["returns"][t] =
              [n \in Envs |->
                 gamma * buf["returns"][t + 1][n] * AsNumber(buf["masks"][t + 1][n])
                 + buf["rewards"][t][n]]],
           t - 1, gamma)

\* the buffers compute_returns leaves when it finds buf with the common
\* cursor s, a timestep of the buffer
Computed(buf, s, next_value, use_gae, gamma, tau) ==
    IF use_gae
    THEN GaeLoop([buf EXCEPT !["value_preds"][s] = next_value],
                 [n \in Envs |-> 0], s - 1, gamma, tau)
    ELSE ReturnLoop([buf EXCEPT !["returns"][s] = next_value], s - 1, gamma)

ComputeReturns(next_value, use_gae, gamma, tau) ==
    /\ call' = ComputeCall(next_value, use_gae, gamma, tau)
    /\ IF ~step_ok
       THEN /\ err' = "AssertionError"
            /\ buffers' = buffers
       ELSE IF steps[0] \notin TimeSteps
       THEN /\ err' = "IndexError"
            /\ buffers' = buffers
       ELSE /\ err' = "ok"
            /\ buffers' = Computed(buffers, steps[0], next_value, use_gae, gamma, tau)
    /\ UNCHANGED <<num_envs, is_double_buffered, steps>>

----------------------------------------------------------------------------
(* Inputs of the calls *)

\* a tensor of leading size k
Tensor(k, v) == [j \in 0..(k - 1) |-> v + j]

\* a mask tensor of leading size k: all false, all true, or alternating
MaskTensor(k, m) == [j \in 0..(k - 1) |-> IF m = 2 THEN j % 2 = 0 ELSE m = 1]

\* number of simulators of one buffer half
HalfSize == num_envs \div nbuffers

\* the arguments of an insert that supplies every field
FullArgs(v, m) ==
    [a \in ArgNames |->
        CASE a = "observations" -> Tensor(HalfSize, 10 + v)
          [] a = "recurrent_hidden_states" -> Tensor(HalfSize, 20 + v)
          [] a = "actions" -> Tensor(HalfSize, 30 + v)
          [] a = "action_log_probs" -> Tensor(HalfSize, 40 + v)
          [] a = "value_preds" -> Tensor(HalfSize, 50 + v)
          [] a = "rewards" -> Tensor(HalfSize, v)
          [] OTHER -> MaskTensor(HalfSize, m)]

Restrict(f, S) == [a \in S |-> f[a]]

Halves == 0..(nbuffers - 1)

BufferIndices == (-(MaxIndex + 1))..MaxIndex

\* every combination of supplied fields for the valid halves, a few
\* combinations for every other buffer_index
ProbeInput(b, S) == b \in Halves \/ S \in {{}, {"rewards"}, {"masks"}, ArgNames}

\* the whole-step arguments of the k-th insert of a behaviour
StepArgs(k) == FullArgs(k, 2)

NextValues == {Tensor(num_envs, v) : v \in 1..2}

Gammas == 1..2

Taus == 0..1

\* use_gae=False does not read tau
ComputeInputs ==
    {<<nv, FALSE, g, 0>> : nv \in NextValues, g \in Gammas}
    \cup {<<nv, TRUE, g, tau>> : nv \in NextValues, g \in Gammas, tau \in Taus}

----------------------------------------------------------------------------
(* The rollout protocol: inserts of whole steps, cursor advances, return   *)
(* computation and the end-of-rollout slide, in any order.                 *)

StepInsert ==
    \E b \in Halves :
        /\ hist.inserts < MaxInserts
        /\ Insert(b, StepArgs(hist.inserts + 1))
        /\ hist' = [hist EXCEPT !.inserts = @ + 1]
        /\ UNCHANGED <<genvars, threads>>

Advance ==
    \E b \in Halves :
        /\ steps[b] <= numsteps
        /\ AdvanceRollout(b)
        /\ UNCHANGED <<hist, genvars, threads>>

Update ==
    /\ AfterUpdate
    /\ UNCHANGED <<hist, genvars, threads>>

Compute ==
    \E use_gae \in BOOLEAN :
        /\ hist.computes = 0
        /\ ComputeReturns(Tensor(num_envs, 3), use_gae, 2, 1)
        /\ hist' = [hist EXCEPT !.computes = @ + 1]
        /\ UNCHANGED <<genvars, threads>>

Next == StepInsert \/ Advance \/ Update \/ Compute

Spec == Init /\ [][Next]_vars

----------------------------------------------------------------------------
(* insert under every combination of supplied fields and every             *)
(* buffer_index, on a storage that one whole-step insert has filled.       *)

FillInsert ==
    \E b \in Halves :
        /\ ~hist.probed
        /\ hist.inserts < 1
        /\ Insert(b, StepArgs(1))
        /\ hist' = [hist EXCEPT !.inserts = @ + 1]
        /\ UNCHANGED <<genvars, threads>>

ProbeInsert ==
    \E b \in BufferIndices, S \in SUBSET ArgNames :
        /\ ~hist.probed
        /\ ProbeInput(b, S)
        /\ Insert(b, Restrict(FullArgs(5, 2), S))
        /\ hist' = [hist EXCEPT !.inserts = @ + 1, !.probed = TRUE]
        /\ UNCHANGED <<genvars, threads>>

ProbeAdvance == ~hist.probed /\ Advance

ProbeUpdate == ~hist.probed /\ Update

NextInsert == FillInsert \/ ProbeAdvance \/ ProbeUpdate \/ ProbeInsert

SpecInsert == Init /\ [][NextInsert]_vars

----------------------------------------------------------------------------
(* compute_returns on every storage of the bounds: rewards, masks and      *)
(* value_preds hold what inserts and earlier compute_returns calls can     *)
(* have left there, the cursors are anywhere up to one past numsteps.      *)

InitReturns ==
    /\ num_envs \in 1..MaxEnvs
    /\ is_double_buffered \in BOOLEAN
    /\ num_envs % nbuffers = 0
    /\ steps \in [0..(nbuffers - 1) -> 0..(numsteps + 1)]
    /\ \E r \in [0..(numsteps - 1) -> 1..2], m \in [1..numsteps -> 0..2], v \in [TimeSteps -> 0..1] :
          buffers = [leaf \in Leaves |-> [t \in TimeSteps |->
                       IF leaf = "rewards" /\ t < numsteps THEN Tensor(num_envs, r[t])
                       ELSE IF leaf = "masks" /\ t >= 1 THEN MaskTensor(num_envs, m[t])
                       ELSE IF leaf = "value_preds" THEN Tensor(num_envs, 3 * v[t])
                       ELSE [n \in 0..(num_envs - 1) |-> ZeroOf(leaf)]]]
    /\ call = NoCall
    /\ err = "ok"
    /\ hist = NoHist
    /\ gen = NoGen
    /\ yielded = <<>>
    /\ batch = <<>>
    /\ warned = 0
    /\ threads = <<>>

ComputeOnce ==
    \E in \in ComputeInputs :
        /\ hist.computes = 0
        /\ ComputeReturns(in[1], in[2], in[3], in[4])
        /\ hist' = [hist EXCEPT !.computes = @ + 1]
        /\ UNCHANGED <<genvars, threads>>

NextReturns == ComputeOnce

SpecReturns == InitReturns /\ [][NextReturns]_vars

----------------------------------------------------------------------------
(* recurrent_generator *)

GeneratorCall(m) == [NoCall EXCEPT !.op = "recurrent_generator", !.num_mini_batch = m]

ResumeCall == [NoCall EXCEPT !.op = "next"]

\* torch.randperm(n): the orders of 0..n-1, as sequences
RandPerm(n) ==
    {p \in [1..n -> 0..(n - 1)] : \A i, j \in 1..n : p[i] = p[j] => i = j}

\* Tensor.chunk(m) where every chunk has len \div m elements and the
\* remainder is dropped
ChunkFloor(p, m) ==
    LET size == Max(Len(p) \div m, 1)
    IN  [i \in 1..m |-> SubSeq(p, (i - 1) * size + 1, Min(i * size, Len(p)))]

\* Tensor.chunk(m) of a one-dimensional tensor p: chunks of ceil(len/m)
\* elements, the last one shorter, as many as it takes to hold p
Chunk(p, m) ==
    LET size  == (Len(p) + m - 1) \div m
        count == (Len(p) + size - 1) \div size
    IN  [i \in 1..count |-> SubSeq(p, (i - 1) * size + 1, Min(i * size, Len(p)))]

\* the rows 0:stop of a tensor with nrows rows
Rows(stop, nrows) == 0..(Min(stop, nrows) - 1)

\* v[rows, inds].flatten(0, 1): row after row, inds in their order
Flatten(v, rows, inds) ==
    [i \in 1..(Cardinality(rows) * Len(inds)) |->
        v[(i - 1) \div Len(inds)][inds[((i - 1) % Len(inds)) + 1]]]

\* the batch with recurrent_hidden_states cut like every other leaf
BatchKeepsHiddenStates(inds, s, advantages) ==
    [k \in Leaves \cup {"advantages"} |->
        IF k = "advantages"
        THEN Flatten(advantages, Rows(s, numsteps), inds)
        ELSE Flatten(buffers[k], Rows(s, numsteps + 1), inds)]

\* the batch built for the simulators inds at cursor s
BatchOf(inds, s, advantages) ==
    [k \in Leaves \cup {"advantages"} |->
        IF k = "advantages"
        THEN Flatten(advantages, Rows(s, numsteps), inds)
        ELSE IF k = "recurrent_hidden_states"
        THEN Flatten(buffers[k], Rows(1, Cardinality(Rows(s, numsteps + 1))), inds)
        ELSE Flatten(buffers[k], Rows(s, numsteps + 1), inds)]

\* the body of the loop with its item assignments made on self.buffers
LoopBodyOnStorage(inds, s, advantages) ==
    [storage |-> [k \in Leaves \cup {"advantages"} |->
                    IF k = "advantages" THEN advantages
                    ELSE IF k = "recurrent_hidden_states" THEN [t \in 0..0 |-> buffers[k][t]]
                    ELSE buffers[k]],
     batch   |-> BatchOf(inds, s, advantages)]

\* the body of the loop for the simulators inds: batch is a TensorDict of
\* its own, the item assignments are made on it and the storage stays as it is
LoopBody(inds, s, advantages) ==
    [storage |-> buffers, batch |-> BatchOf(inds, s, advantages)]

\* recurrent_generator without its assertion
SimulatorsNotChecked(num_simulators, num_mini_batch) == TRUE

\* the assertion of recurrent_generator
EnoughSimulators(num_simulators, num_mini_batch) == num_simulators >= num_mini_batch

\* the call itself runs nothing of the body: it returns a generator object
RecurrentGenerator(advantages, num_mini_batch) ==
    /\ call' = GeneratorCall(num_mini_batch)
    /\ err' = "ok"
    /\ gen' = [pc |-> "start", num_mini_batch |-> num_mini_batch,
               advantages |-> advantages, chunks |-> <<>>, pos |-> 0]
    /\ yielded' = <<>>
    /\ batch' = <<>>
    /\ UNCHANGED <<num_envs, is_double_buffered, buffers, steps, warned>>

\* one iteration of the for loop over chunks, about to take chunk pos+1
LoopIteration(chunks, pos, w) ==
    IF pos >= Len(chunks)
    THEN /\ err' = "StopIteration"
         /\ gen' = [gen EXCEPT !.pc = "done", !.chunks = chunks]
         /\ warned' = w
         /\ UNCHANGED <<yielded, batch, buffers>>
    ELSE IF ~step_ok
    THEN /\ err' = "AssertionError"
         /\ gen' = [gen EXCEPT !.pc = "failed", !.chunks = chunks]
         /\ warned' = w
         /\ UNCHANGED <<yielded, batch, buffers>>
    ELSE /\ err' = "ok"
         /\ gen' = [gen EXCEPT !.pc = "loop", !.chunks = chunks, !.pos = pos + 1]
         /\ warned' = w
         /\ yielded' = Append(yielded, chunks[pos + 1])
         /\ batch' = LoopBody(chunks[pos + 1], steps[0], gen.advantages).batch
         /\ buffers' = LoopBody(chunks[pos + 1], steps[0], gen.advantages).storage

\* next() on the generator: from the start of the body to the first yield,
\* or from a yield to the next one or to the end of the loop
Resume ==
    /\ gen.pc \in {"start", "loop"}
    /\ call' = ResumeCall
    /\ IF gen.pc = "start"
       THEN LET num_simulators == Cardinality(DOMAIN gen.advantages[0])
            IN  IF ~EnoughSimulators(num_simulators, gen.num_mini_batch)
                THEN /\ err' = "AssertionError"
                     /\ gen' = [gen EXCEPT !.pc = "failed"]
                     /\ UNCHANGED <<yielded, batch, warned, buffers>>
                ELSE \E p \in RandPerm(num_simulators) :
                        LoopIteration(Chunk(p, gen.num_mini_batch), 0,
                                      IF num_simulators % gen.num_mini_batch # 0
                                      THEN warned + 1 ELSE warned)
       ELSE LoopIteration(gen.chunks, gen.pos, warned)
    /\ UNCHANGED <<num_envs, is_double_buffered, steps>>

\* the advantages the trainer passes: one row per timestep before numsteps
Advantages == [t \in 0..(numsteps - 1) |-> [n \in Envs |-> 100 + 10 * t + n]]

----------------------------------------------------------------------------
(* Mini-batch generation on a storage that a few whole-step inserts and    *)
(* cursor advances have filled.                                            *)

InitGen == Construct(MaxSimulators)

GenFill ==
    \E b \in Halves :
        /\ gen.pc = "none"
        /\ hist.inserts < 2
        /\ Insert(b, StepArgs(hist.inserts + 1))
        /\ hist' = [hist EXCEPT !.inserts = @ + 1]
        /\ UNCHANGED <<genvars, threads>>

\* a call of recurrent_generator, the first one or the one that follows a
\* generator that failed
GenStart ==
    \E m \in 1..(num_envs + 1) :
        /\ gen.pc \in {"none", "failed"}
        /\ hist.generators < 2
        /\ RecurrentGenerator(Advantages, m)
        /\ hist' = [hist EXCEPT !.generators = @ + 1]
        /\ UNCHANGED threads

GenResume ==
    /\ Resume
    /\ UNCHANGED <<hist, threads>>

\* the cursors move before a generator is made and between two of its batches
GenAdvance == gen.pc \in {"none", "loop"} /\ Advance

NextGen == GenFill \/ GenAdvance \/ GenStart \/ GenResume

SpecGen == InitGen /\ [][NextGen]_vars

----------------------------------------------------------------------------
(* Overlapped stepping: one thread per half makes insert and               *)
(* advance_rollout calls on its half; a step of the model is one field     *)
(* write, one read of a cursor or one write of a cursor.                   *)

\* the keys of self.buffers in the order __init__ creates them
LeafOrder == <<"observations", "recurrent_hidden_states", "rewards", "value_preds",
               "returns", "action_log_probs", "actions", "prev_actions", "masks">>

\* the order in which TensorDict.set visits the keys of values
KeysInOrder(values) == SelectSeq(LeafOrder, LAMBDA k : k \in DOMAIN values)

\* the calls thread b may make as its i-th: a cursor advance, an insert of
\* rewards and masks, an insert of every field
ThreadCalls(b, i) ==
    LET a == FullArgs(b * MaxCalls + i, i % 2)
    IN  {AdvanceCall(b), InsertCall(b, Restrict(a, {"rewards", "masks"})), InsertCall(b, a)}

\* the call sequences of thread b
Programs(b) ==
    UNION {{p \in [1..n -> UNION {ThreadCalls(b, i) : i \in 1..MaxCalls}] :
              \A i \in 1..n : p[i] \in ThreadCalls(b, i)} : n \in 0..MaxCalls}

NewThread(prog) ==
    [prog |-> prog, k |-> 1, phase |-> "idle", t |-> 0, pending |-> <<>>,
     tmp |-> 0, err |-> "ok", overlapped |-> FALSE]

InitThreads ==
    /\ num_envs \in 1..MaxEnvs
    /\ is_double_buffered = TRUE
    /\ num_envs % nbuffers = 0
    /\ buffers = [leaf \in Leaves |-> [t \in TimeSteps |-> [n \in 0..(num_envs - 1) |-> ZeroOf(leaf)]]]
    /\ steps = [i \in 0..(nbuffers - 1) |-> 0]
    /\ call = NoCall
    /\ err = "ok"
    /\ hist = NoHist
    /\ gen = NoGen
    /\ yielded = <<>>
    /\ batch = <<>>
    /\ warned = 0
    /\ \E p0 \in Programs(0), p1 \in Programs(1) :
          threads = [b \in Halves |-> NewThread(IF b = 0 THEN p0 ELSE p1)]

\* thread b is inside a call
MidCall(b) == threads[b].phase \notin {"idle", "failed"}

\* thread b is between two calls and has a call left to make
AtCall(b, op) ==
    /\ threads[b].phase = "idle"
    /\ threads[b].k <= Len(threads[b].prog)
    /\ threads[b].prog[threads[b].k].op = op

\* thread b has returned from its last call or was ended by an exception
Finished(b) ==
    \/ threads[b].phase = "failed"
    \/ threads[b].phase = "idle" /\ threads[b].k > Len(threads[b].prog)

\* thread b becomes th; it notes whether the other thread is inside a call
Took(b, th) ==
    threads' = [threads EXCEPT ![b] = [th EXCEPT !.overlapped = @ \/ MidCall(1 - b)]]

Returned(th) == [th EXCEPT !.phase = "idle", !.k = @ + 1, !.pending = <<>>]

\* self.steps[buffer_index] += 1: the read of the list element
ThreadLoad(b) ==
    /\ AtCall(b, "advance_rollout")
    /\ Took(b, [threads[b] EXCEPT !.phase = "store", !.tmp = steps[ListIndex(b, nbuffers)]])
    /\ UNCHANGED <<num_envs, is_double_buffered, buffers, steps, call, err, hist, genvars>>

\* self.steps[buffer_index] += 1: the write of the list element
ThreadStore(b) ==
    /\ threads[b].phase = "store"
    /\ steps' = [steps EXCEPT ![ListIndex(b, nbuffers)] = threads[b].tmp + 1]
    /\ Took(b, Returned(threads[b]))
    /\ UNCHANGED <<num_envs, is_double_buffered, buffers, call, err, hist, genvars>>

\* insert up to the set of next_step: the cursor is read when there is a
\* field to write
ThreadSetNext(b) ==
    /\ AtCall(b, "insert")
    /\ LET nxt == NextStep(threads[b].prog[threads[b].k].args)
       IN  IF DOMAIN nxt = {}
           THEN Took(b, [threads[b] EXCEPT !.phase = "current_set"])
           ELSE Took(b, [threads[b] EXCEPT !.phase = "next",
                                           !.t = steps[ListIndex(b, nbuffers)] + 1,
                                           !.pending = KeysInOrder(nxt)])
    /\ UNCHANGED <<num_envs, is_double_buffered, buffers, steps, call, err, hist, genvars>>

\* insert from the set of next_step to the set of current_step
ThreadSetCurrent(b) ==
    /\ threads[b].phase = "current_set"
    /\ LET cur == CurrentStep(threads[b].prog[threads[b].k].args)
       IN  IF DOMAIN cur = {}
           THEN Took(b, Returned(threads[b]))
           ELSE Took(b, [threads[b] EXCEPT !.phase = "current",
                                           !.t = steps[ListIndex(b, nbuffers)],
                                           !.pending = KeysInOrder(cur)])
    /\ UNCHANGED <<num_envs, is_double_buffered, buffers, steps, call, err, hist, genvars>>

\* one pass of the loop of TensorDict.set: the copy into one leaf
ThreadWrite(b) ==
    /\ threads[b].phase \in {"next", "current"}
    /\ LET th     == threads[b]
           args   == th.prog[th.k].args
           values == IF th.phase = "next" THEN NextStep(args) ELSE CurrentStep(args)
           leaf   == Head(th.pending)
           r      == TensorDictSet(buffers, th.t, EnvSlice(b), [k \in {leaf} |-> values[leaf]])
       IN  IF r.err # "ok"
           THEN /\ buffers' = buffers
                /\ Took(b, [th EXCEPT !.phase = "failed", !.err = r.err])
           ELSE /\ buffers' = r.buf
                /\ IF Len(th.pending) > 1
                   THEN Took(b, [th EXCEPT !.pending = Tail(@)])
                   ELSE IF th.phase = "next"
                   THEN Took(b, [th EXCEPT !.phase = "current_set", !.pending = <<>>])
                   ELSE Took(b, Returned(th))
    /\ UNCHANGED <<num_envs, is_double_buffered, steps, call, err, hist, genvars>>

Load == \E b \in Halves : ThreadLoad(b)

Store == \E b \in Halves : ThreadStore(b)

SetNext == \E b \in Halves : ThreadSetNext(b)

SetCurrent == \E b \in Halves : ThreadSetCurrent(b)

Write == \E b \in Halves : ThreadWrite(b)

NextThreads == Load \/ Store \/ SetNext \/ SetCurrent \/ Write

SpecThreads == InitThreads /\ [][NextThreads]_vars

----------------------------------------------------------------------------
(* Stepping as the trainer does it: every step of a half is an insert that *)
(* supplies actions followed by advance_rollout on that half, numsteps     *)
(* steps to a rollout, after_update between rollouts.                      *)

\* the fields an insert of a step supplies
StepFields == {{"actions"}, {"actions", "rewards", "masks"}, ArgNames}

InitSteps ==
    /\ num_envs \in 1..MaxEnvs
    /\ is_double_buffered \in BOOLEAN
    /\ num_envs % nbuffers = 0
    /\ buffers = [leaf \in Leaves |-> [t \in TimeSteps |-> [n \in 0..(num_envs - 1) |-> ZeroOf(leaf)]]]
    /\ steps = [i \in 0..(nbuffers - 1) |-> 0]
    /\ call = NoCall
    /\ err = "ok"
    /\ hist = NoHist
    /\ gen = NoGen
    /\ yielded = <<>>
    /\ batch = <<>>
    /\ warned = 0
    /\ threads = [b \in Halves |-> NewThread(<<>>)]

\* the insert of a step of half b
StepperInsert ==
    \E b \in Halves, S \in StepFields :
        /\ threads[b].phase = "idle"
        /\ steps[b] < numsteps
        /\ hist.inserts < 2 * MaxInserts
        /\ Insert(b, Restrict(FullArgs(hist.inserts + 1, 1), S))
        /\ hist' = [hist EXCEPT !.inserts = @ + 1]
        /\ threads' = [threads EXCEPT ![b].phase = "inserted"]
        /\ UNCHANGED genvars

\* the advance_rollout of a step of half b
StepperAdvance ==
    \E b \in Halves :
        /\ threads[b].phase = "inserted"
        /\ AdvanceRollout(b)
        /\ threads' = [threads EXCEPT ![b].phase = "idle"]
        /\ UNCHANGED <<hist, genvars>>

\* after_update between two steps
StepperUpdate ==
    /\ \A b \in Halves : threads[b].phase = "idle"
    /\ AfterUpdate
    /\ UNCHANGED <<hist, genvars, threads>>

NextSteps == StepperInsert \/ StepperAdvance \/ StepperUpdate

SpecSteps == InitSteps /\ [][NextSteps]_vars

----------------------------------------------------------------------------
(* Properties of insert and after_update *)

\* the leaves of the two groups of insert and the argument each is fed from
NextLeaves == {"observations", "recurrent_hidden_states", "prev_actions", "masks"}

CurrentLeaves == {"actions", "action_log_probs", "rewards"}

ArgOf(leaf) == IF leaf = "prev_actions" THEN "actions" ELSE leaf

\* the step taken is a call of insert
InsertStep == call'.op = "insert"

\* the cells of half b are the same before and after the step
HalfUnchanged(b) ==
    \A leaf \in Leaves, t \in TimeSteps, n \in Owned(b) :
        buffers'[leaf][t][n] = buffers[leaf][t][n]

\* C1: with double buffering, an insert with buffer_index 0 changes no cell
\* of the simulators of half 1, and an insert with buffer_index 1 changes no
\* cell of the simulators of half 0, whatever the cursor and the fields.
C1_OtherHalfUntouched ==
    [][(InsertStep /\ is_double_buffered /\ call'.buffer_index \in {0, 1})
         => HalfUnchanged(1 - call'.buffer_index)]_vars

\* an insert into half 0 that wrote every field while half 1 holds data
C1_Witness ==
    /\ is_double_buffered
    /\ call.op = "insert" /\ call.buffer_index = 0 /\ err = "ok"
    /\ DOMAIN call.args = ArgNames
    /\ \E t \in TimeSteps : /\ buffers["rewards"][t][1] # 0
                             /\ buffers["rewards"][t][0] = call.args["rewards"][0]

\* C2: an after_update made while every cursor equals s, a timestep of the
\* buffer, resets every cursor to 0, copies timestep s of every leaf to
\* timestep 0 and leaves timesteps 1..numsteps as they were.
C2_AfterUpdateSlides ==
    [][(call'.op = "after_update" /\ step_ok /\ steps[0] \in TimeSteps)
         => /\ \A i \in DOMAIN steps' : steps'[i] = 0
            /\ DOMAIN steps' = DOMAIN steps
            /\ \A leaf \in Leaves, n \in Envs :
                  /\ buffers'[leaf][0][n] = buffers[leaf][steps[0]][n]
                  /\ \A t \in 1..numsteps : buffers'[leaf][t][n] = buffers[leaf][t][n]]_vars

\* after_update has slid a timestep s > 0 that held data to timestep 0
C2_Witness ==
    /\ call.op = "after_update" /\ err = "ok"
    /\ \A i \in DOMAIN steps : steps[i] = 0
    /\ \E s \in 1..numsteps :
          /\ \A leaf \in Leaves : buffers[leaf][0] = buffers[leaf][s]
          /\ buffers["observations"][s][0] # 0
          /\ buffers["returns"][s][0] # 0
          /\ buffers["observations"][s] # buffers["observations"][1]

\* a buffer_index the storage has no half for
InvalidBufferIndex(b) == IF is_double_buffered THEN b \notin {0, 1} ELSE b # 0

\* C6: an insert whose buffer_index is nonzero without double buffering, or
\* outside {0, 1} with double buffering, fails and writes no cell.
C6_InvalidIndexFails ==
    [][(InsertStep /\ InvalidBufferIndex(call'.buffer_index))
         => (err' # "ok" /\ buffers' = buffers)]_vars

\* C10: an insert with a valid buffer_index b changes no cursor and no cell
\* other than, on the simulators of half b, the next-step leaves that were
\* supplied at timestep steps[b]+1 and the current-step leaves that were
\* supplied at timestep steps[b]; when it returns, those cells hold the
\* supplied values, prev_actions holding the actions argument.
C10_InsertWritesSupplied ==
    [][(InsertStep /\ call'.buffer_index \in Halves)
         => LET b == call'.buffer_index
                c == steps[b]
                args == call'.args
                Written(leaf, t, n) ==
                    /\ n \in Owned(b)
                    /\ ArgOf(leaf) \in DOMAIN args
                    /\ \/ leaf \in NextLeaves /\ t = c + 1
                       \/ leaf \in CurrentLeaves /\ t = c
            IN  /\ steps' = steps
                /\ \A leaf \in Leaves, t \in TimeSteps, n \in Envs :
                      IF Written(leaf, t, n)
                      THEN err' = "ok" =>
                             buffers'[leaf][t][n] = args[ArgOf(leaf)][n - b * HalfSize]
                      ELSE buffers'[leaf][t][n] = buffers[leaf][t][n]]_vars

\* an insert of actions and masks alone into half 1 of a filled storage
C10_Witness ==
    /\ is_double_buffered /\ num_envs = 2
    /\ call.op = "insert" /\ call.buffer_index = 1 /\ err = "ok"
    /\ DOMAIN call.args = {"actions", "masks"}
    /\ steps[1] = 1
    /\ buffers["prev_actions"][2][1] = call.args["actions"][0]
    /\ buffers["actions"][1][1] = call.args["actions"][0]
    /\ buffers["rewards"][0][1] # 0
    /\ buffers["observations"][1][1] # 0

----------------------------------------------------------------------------
(* Properties of compute_returns *)

RECURSIVE Pow(_, _)
Pow(g, e) == IF e = 0 THEN 1 ELSE g * Pow(g, e - 1)

\* sum over k in t..(s-1) of g^(k-t) * rewards[k][n], on the rewards before
\* the step: the closed form of the claim, term by term
RECURSIVE SumOfPowers(_, _, _, _, _)
SumOfPowers(k, t, s, g, n) ==
    IF k >= s THEN 0
    ELSE Pow(g, k - t) * buffers["rewards"][k][n] + SumOfPowers(k + 1, t, s, g, n)

\* the step taken is a compute_returns call that returned
ComputeStep(use_gae) ==
    call'.op = "compute_returns" /\ call'.use_gae = use_gae /\ err' = "ok"

\* C7: after compute_returns with use_gae=False, for a simulator whose masks
\* are true at timesteps 1..step, returns[t] is the discounted sum of
\* rewards[t..step-1] plus gamma^(step-t) * next_value for every t < step,
\* and returns[step] is next_value.
C7_DiscountedReturn ==
    [][ComputeStep(FALSE) =>
         LET s == steps[0]
             g == call'.gamma
         IN  \A n \in Envs :
               (\A t \in 1..s : buffers["masks"][t][n]) =>
                  /\ buffers'["returns"][s][n] = call'.next_value[n]
                  /\ \A t \in 0..(s - 1) :
                        buffers'["returns"][t][n] =
                          SumOfPowers(t, t, s, g, n) + Pow(g, s - t) * call'.next_value[n]]_vars

\* a use_gae=False call at cursor numsteps with gamma 2 on a simulator whose
\* masks are all true and whose rewards differ between timesteps
C7_Witness ==
    /\ call.op = "compute_returns" /\ ~call.use_gae /\ err = "ok"
    /\ call.gamma = 2
    /\ steps[0] = numsteps
    /\ \A t \in 1..numsteps : buffers["masks"][t][0]
    /\ buffers["rewards"][0][0] # buffers["rewards"][1][0]
    /\ buffers["returns"][0][0] > buffers["rewards"][0][0] + 2 * buffers["rewards"][1][0]

\* C8: after compute_returns with use_gae=True and tau=0, for every t < step
\* and every simulator, returns[t] = rewards[t] + gamma * value_preds[t+1] *
\* masks[t+1], value_preds[step] being next_value.
C8_GaeTauZero ==
    [][(ComputeStep(TRUE) /\ call'.tau = 0) =>
         LET s == steps[0]
             g == call'.gamma
         IN  \A n \in Envs :
               /\ buffers'["value_preds"][s][n] = call'.next_value[n]
               /\ \A t \in 0..(s - 1) :
                     buffers'["returns"][t][n] =
                       buffers["rewards"][t][n]
                       + g * buffers'["value_preds"][t + 1][n] * AsNumber(buffers["masks"][t + 1][n])]_vars

\* a GAE call with tau 0 at cursor numsteps where value_preds[0] and
\* value_preds[1] are not zero and the mask at timestep 1 is true
C8_Witness ==
    /\ call.op = "compute_returns" /\ call.use_gae /\ call.tau = 0 /\ err = "ok"
    /\ steps[0] = numsteps
    /\ buffers["value_preds"][0][0] # 0
    /\ buffers["value_preds"][1][0] # 0
    /\ buffers["masks"][1][0]
    /\ buffers["returns"][0][0] = buffers["rewards"][0][0] + call.gamma * buffers["value_preds"][1][0]

\* C9: after compute_returns, in either mode and for every gamma and tau,
\* returns[t] = rewards[t] for every t < step and simulator whose mask at
\* t+1 is false.
C9_BoundaryIsolation ==
    [][(call'.op = "compute_returns" /\ err' = "ok") =>
         \A n \in Envs, t \in 0..(steps[0] - 1) :
            ~buffers["masks"][t + 1][n] =>
               buffers'["returns"][t][n] = buffers["rewards"][t][n]]_vars

\* a GAE call with tau 1 and gamma 2 where simulator 0 has an episode
\* boundary at timestep 1, followed by a timestep whose mask is true, and
\* value_preds is not zero on either side of the boundary
C9_Witness ==
    /\ call.op = "compute_returns" /\ call.use_gae /\ call.tau = 1 /\ call.gamma = 2
    /\ err = "ok"
    /\ steps[0] = numsteps
    /\ ~buffers["masks"][1][0]
    /\ buffers["masks"][2][0]
    /\ buffers["value_preds"][0][0] # 0
    /\ buffers["value_preds"][1][0] # 0
    /\ buffers["returns"][0][0] = buffers["rewards"][0][0]
    /\ buffers["returns"][1][0] # buffers["rewards"][1][0]

----------------------------------------------------------------------------
(* Properties of recurrent_generator *)

Range(q) == {q[i] : i \in DOMAIN q}

\* C3: a generator that has been consumed to its end has yielded exactly
\* num_mini_batch batches.
C3_YieldsNumMiniBatch ==
    gen.pc = "done" => Len(yielded) = gen.num_mini_batch

\* C4: the batches a generator yields hold pairwise disjoint sets of
\* simulators, none twice in a batch, and once the generator is consumed to
\* its end their union is 0..num_envs-1.
C4_BatchesPartition ==
    /\ \A i, j \in 1..Len(yielded) :
          i # j => Range(yielded[i]) \cap Range(yielded[j]) = {}
    /\ \A i \in 1..Len(yielded) : Cardinality(Range(yielded[i])) = Len(yielded[i])
    /\ gen.pc = "done" => UNION {Range(yielded[i]) : i \in 1..Len(yielded)} = Envs

\* three simulators consumed in two batches of two and one, not in index order
C4_Witness ==
    /\ gen.pc = "done"
    /\ num_envs = 3 /\ gen.num_mini_batch = 2
    /\ Len(yielded) = 2
    /\ Len(yielded[1]) = 2 /\ Len(yielded[2]) = 1
    /\ yielded[1][1] = 2

\* the step taken resumes a generator that has not run yet
FirstResume == call'.op = "next" /\ gen.pc = "start"

\* C5: a generator asked for more mini batches than there are simulators
\* fails with an assertion failure when first resumed, having yielded no
\* batch and with buffers and cursors as they were, and yields none later;
\* with at least as many simulators as mini batches but no even division,
\* the first resumption emits one warning and, the cursors agreeing on the
\* common cursor the batch is cut at, yields a batch.
C5_InsufficientSimulators ==
    [][FirstResume =>
         /\ gen.num_mini_batch > num_envs =>
               /\ err' = "AssertionError"
               /\ gen'.pc = "failed"
               /\ yielded' = <<>> /\ batch' = <<>>
               /\ warned' = warned
               /\ buffers' = buffers /\ steps' = steps
         /\ (gen.num_mini_batch <= num_envs /\ num_envs % gen.num_mini_batch # 0) =>
               /\ warned' = warned + 1
               /\ step_ok => (err' = "ok" /\ Len(yielded') = 1 /\ gen'.pc = "loop")
               /\ buffers' = buffers /\ steps' = steps]_vars

\* a call with too many mini batches has failed on a storage that holds
\* data, and the call made after it, with an uneven division, got its
\* warning and yielded its first batch
C5_Witness ==
    /\ hist.generators = 2
    /\ gen.pc = "loop" /\ err = "ok" /\ call.op = "next"
    /\ num_envs % gen.num_mini_batch # 0
    /\ Len(yielded) = 1
    /\ warned = 1
    /\ steps[0] = 1
    /\ buffers["rewards"][0][0] # 0

----------------------------------------------------------------------------
(* Properties of the calls that read the common cursor *)

\* two halves' cursors differ
CursorsDiffer == \E i, j \in DOMAIN steps : steps[i] # steps[j]

\* C11: after_update and compute_returns, with use_gae true or false, called
\* while two halves' cursors differ fail with an assertion failure and leave
\* every buffer cell and every cursor as they were.
C11_DifferingCursorsFail ==
    [][(call'.op \in {"after_update", "compute_returns"} /\ CursorsDiffer)
         => (err' = "AssertionError" /\ buffers' = buffers /\ steps' = steps)]_vars

\* after_update has failed between cursors that differ, on a storage holding
\* rewards, after the one compute_returns call of the behaviour left returns
\* and value_preds at zero
C11_Witness ==
    /\ is_double_buffered
    /\ steps[0] # steps[1]
    /\ call.op = "after_update" /\ err = "AssertionError"
    /\ hist.computes = 1
    /\ \A t \in TimeSteps, n \in Envs :
          buffers["returns"][t][n] = 0 /\ buffers["value_preds"][t][n] = 0
    /\ buffers["rewards"][0][0] # 0

----------------------------------------------------------------------------
(* Properties of overlapped stepping *)

\* the calls prog(k), prog(k+1), ... made one after the other on the storage
\* s; an exception ends the sequence
RECURSIVE RunCalls(_, _, _, _)
RunCalls(s, prog, b, k) ==
    IF k > Len(prog) THEN s
    ELSE IF prog[k].op = "advance_rollout"
    THEN RunCalls([s EXCEPT !.steps[ListIndex(b, nbuffers)] = @ + 1], prog, b, k + 1)
    ELSE LET r == InsertWritesOn(s.buf, s.steps, b, prog[k].args)
         IN  IF r.err # "ok" THEN s
             ELSE RunCalls([s EXCEPT !.buf = r.buf], prog, b, k + 1)

\* the storage the threads started on
Constructed ==
    [buf   |-> [leaf \in Leaves |-> [t \in TimeSteps |-> [n \in Envs |-> ZeroOf(leaf)]]],
     steps |-> [i \in Halves |-> 0]]

\* the calls of half 0 completely before the calls of half 1
Sequential == RunCalls(RunCalls(Constructed, threads[0].prog, 0, 1), threads[1].prog, 1, 1)

\* C12: whatever the calls of the two threads and however their field
\* writes, cursor reads and cursor writes interleave, when both threads are
\* through the buffers and the cursors are those that the calls of half 0
\* followed by the calls of half 1 leave.
C12_InterleavingsAgree ==
    (threads # <<>> /\ Finished(0) /\ Finished(1))
        => (buffers = Sequential.buf /\ steps = Sequential.steps)

\* both threads inserted every field and advanced, each having taken steps
\* while the other was inside a call
C12_Witness ==
    /\ threads # <<>> /\ Finished(0) /\ Finished(1)
    /\ \A b \in Halves :
          /\ threads[b].overlapped
          /\ threads[b].err = "ok"
          /\ Len(threads[b].prog) = 2
          /\ threads[b].prog[1].op = "insert" /\ DOMAIN threads[b].prog[1].args = ArgNames
          /\ threads[b].prog[2].op = "advance_rollout"
    /\ steps = [i \in Halves |-> 1]
    /\ buffers["rewards"][0][0] # buffers["rewards"][0][1]
    /\ buffers["prev_actions"][1][1] = buffers["actions"][0][1]
    /\ buffers["actions"][0][1] # 0

----------------------------------------------------------------------------
(* Properties of advance_rollout *)

\* C13: advance_rollout(b) raises the cursor of half b by exactly one and
\* changes neither the cursor of the other half nor any buffer cell.
C13_AdvanceMovesOneCursor ==
    [][(call'.op = "advance_rollout" /\ call'.buffer_index \in Halves)
         => /\ err' = "ok"
            /\ DOMAIN steps' = DOMAIN steps
            /\ \A i \in DOMAIN steps :
                  steps'[i] = IF i = call'.buffer_index THEN steps[i] + 1 ELSE steps[i]
            /\ buffers' = buffers]_vars

\* half 1 of a storage holding data has advanced to one past the cursor of
\* half 0, which has advanced before
C13_Witness ==
    /\ is_double_buffered
    /\ call.op = "advance_rollout" /\ call.buffer_index = 1 /\ err = "ok"
    /\ steps[0] = 1 /\ steps[1] = 2
    /\ buffers["rewards"][0][0] # 0
    /\ buffers["prev_actions"][1][1] # 0

----------------------------------------------------------------------------
(* Properties of the batches of recurrent_generator *)

\* C14: neither the call of recurrent_generator nor any resumption of the
\* generator it returns changes a buffer cell, a cursor or the keys of the
\* storage: no advantages key appears in it and recurrent_hidden_states
\* keeps its numsteps+1 timesteps.
C14_GeneratorReadsOnly ==
    [][(call'.op \in {"recurrent_generator", "next"})
         => /\ buffers' = buffers
            /\ steps' = steps
            /\ DOMAIN buffers' = DOMAIN buffers
            /\ "advantages" \notin DOMAIN buffers'
            /\ DOMAIN buffers'["recurrent_hidden_states"] = TimeSteps]_vars

\* a generator consumed to its end after two batches cut at cursor 1 from a
\* storage that holds data, the last batch carrying advantages
C14_Witness ==
    /\ gen.pc = "done" /\ call.op = "next"
    /\ Len(yielded) = 2
    /\ steps[0] = 1
    /\ buffers["recurrent_hidden_states"][1][0] # 0
    /\ "advantages" \in DOMAIN batch
    /\ Len(batch["advantages"]) > 0
    /\ Len(batch["recurrent_hidden_states"]) > 0

\* the step taken resumes a generator, which yields a batch
YieldStep == call'.op = "next" /\ err' = "ok"

\* the batch yielded by the step holds, for the simulators C and the cursor
\* s: of every leaf but recurrent_hidden_states and of advantages the values
\* at timesteps 0..s-1, timestep after timestep, s*|C| of them; of
\* recurrent_hidden_states the values at timestep 0, |C| of them
BatchHolds(C, s) ==
    /\ DOMAIN batch' = Leaves \cup {"advantages"}
    /\ \A k \in (Leaves \ {"recurrent_hidden_states"}) \cup {"advantages"} :
          /\ Len(batch'[k]) = s * Len(C)
          /\ \A t \in 0..(s - 1), j \in 1..Len(C) :
                batch'[k][t * Len(C) + j] =
                  IF k = "advantages" THEN gen.advantages[t][C[j]] ELSE buffers[k][t][C[j]]
    /\ Len(batch'["recurrent_hidden_states"]) = Len(C)
    /\ \A j \in 1..Len(C) :
          batch'["recurrent_hidden_states"][j] = buffers["recurrent_hidden_states"][0][C[j]]

\* C15 as stated: the batch yielded at any common cursor s in 0..numsteps
\* holds the s*|C| values of timesteps 0..s-1 of every other field and of
\* advantages, and the |C| timestep-0 values of recurrent_hidden_states.
C15_BatchContentsAnyCursor ==
    [][(YieldStep /\ steps[0] \in 0..numsteps)
         => BatchHolds(yielded'[Len(yielded')], steps[0])]_vars

\* C15, amended: the same for a common cursor s in 1..numsteps; at cursor 0
\* the batch holds no value of recurrent_hidden_states.
C15_BatchContents ==
    [][(YieldStep /\ steps[0] \in 1..numsteps)
         => BatchHolds(yielded'[Len(yielded')], steps[0])]_vars

\* a batch of two simulators cut at cursor 2 from a storage that two inserts
\* have filled
C15_Witness ==
    /\ call.op = "next" /\ err = "ok"
    /\ steps[0] = 2 /\ step_ok
    /\ Len(yielded[Len(yielded)]) = 2
    /\ Len(batch["rewards"]) = 4
    /\ Len(batch["recurrent_hidden_states"]) = 2
    /\ batch["rewards"][1] # 0
    /\ batch["rewards"][3] # batch["rewards"][1]
    /\ batch["advantages"][3] # batch["advantages"][1]

----------------------------------------------------------------------------
(* Properties of insert at the end of the buffer *)

\* the insert supplies a field of the next-step group
SuppliesNextStep(args) == \E leaf \in NextLeaves : ArgOf(leaf) \in DOMAIN args

\* C16 as stated: an insert into a half whose cursor is within 0..numsteps
\* writes at timesteps within 0..numsteps only, whatever fields it supplies:
\* no write of it is refused as out of range.
C16_WritesInRangeUpToT ==
    [][(InsertStep /\ call'.buffer_index \in Halves
          /\ steps[call'.buffer_index] \in 0..numsteps)
         => err' # "IndexError"]_vars

\* C16, amended: with the cursor of the half within 0..numsteps-1 every
\* write of insert is at a timestep within 0..numsteps, whatever fields are
\* supplied; with the cursor at numsteps that holds when no field of the
\* next-step group is supplied, and otherwise the write is aimed at
\* numsteps+1 and insert fails with IndexError, changing no cell.
C16_WritesInRange ==
    [][(InsertStep /\ call'.buffer_index \in Halves
          /\ steps[call'.buffer_index] \in 0..numsteps)
         => IF steps[call'.buffer_index] = numsteps /\ SuppliesNextStep(call'.args)
            THEN err' = "IndexError" /\ buffers' = buffers
            ELSE err' = "ok"]_vars

\* an insert of every field at cursor numsteps-1 has written its next-step
\* fields at timestep numsteps
C16_Witness ==
    /\ call.op = "insert" /\ call.buffer_index = 0 /\ err = "ok"
    /\ DOMAIN call.args = ArgNames
    /\ steps[0] = numsteps - 1
    /\ buffers["observations"][numsteps][0] = call.args["observations"][0]
    /\ buffers["rewards"][numsteps - 1][0] = call.args["rewards"][0]
    /\ buffers["rewards"][0][0] # 0

----------------------------------------------------------------------------
(* Properties of a run of steps *)

\* C17: in a run where every step of a half is an insert supplying actions
\* followed by advance_rollout on that half, in every state and for every
\* half b, every t below the cursor of b and every simulator of b,
\* prev_actions[t+1] equals actions[t].
C17_PrevActionsFollowActions ==
    \A b \in Halves :
        \A n \in Owned(b), t \in 0..(steps[b] - 1) :
            buffers["prev_actions"][t + 1][n] = buffers["actions"][t][n]

\* half 0 has made two steps of a rollout that follows an after_update, with
\* different actions in the two steps
C17_Witness ==
    /\ steps[0] = 2
    /\ hist.inserts >= 3
    /\ buffers["actions"][0][0] # 0
    /\ buffers["actions"][1][0] # buffers["actions"][0][0]
    /\ buffers["prev_actions"][0][0] # 0
    /\ buffers["prev_actions"][2][0] = buffers["actions"][1][0]

----------------------------------------------------------------------------
(* Properties of the leaves insert does not feed *)

\* C18: no insert, whether or not it supplies value_preds, changes a cell
\* of value_preds or of returns.
C18_InsertKeepsValuePreds ==
    [][InsertStep =>
         /\ buffers'["value_preds"] = buffers["value_preds"]
         /\ buffers'["returns"] = buffers["returns"]]_vars

\* an insert that supplied value_preds and rewards has written its rewards
\* at the cursor of a storage whose value_preds and returns a
\* compute_returns call has filled
C18_Witness ==
    /\ call.op = "insert" /\ call.buffer_index = 0 /\ err = "ok"
    /\ "value_preds" \in DOMAIN call.args
    /\ steps[0] \in TimeSteps
    /\ buffers["rewards"][steps[0]][0] = call.args["rewards"][0]
    /\ buffers["value_preds"][steps[0]][0] # 0
    /\ buffers["value_preds"][steps[0]][0] # call.args["value_preds"][0]
    /\ \E t \in TimeSteps : buffers["returns"][t][0] # 0

----------------------------------------------------------------------------
(* Further properties of compute_returns *)

\* the cells compute_returns may write at common cursor s
MayWrite(leaf, t, s, use_gae) ==
    IF use_gae
    THEN (leaf = "returns" /\ t <= s - 1) \/ (leaf = "value_preds" /\ t = s)
    ELSE leaf = "returns" /\ t <= s

\* C19: compute_returns at common cursor s changes no cursor and no cell
\* other than returns[0..s-1] and value_preds[s] with use_gae, returns[0..s]
\* without: every other leaf, value_preds[0..s-1] and every timestep above s
\* stay as they were.
C19_ComputeReturnsFrame ==
    [][(call'.op = "compute_returns")
         => /\ steps' = steps
            /\ \A leaf \in Leaves, t \in TimeSteps, n \in Envs :
                  buffers'[leaf][t][n] # buffers[leaf][t][n]
                     => MayWrite(leaf, t, steps[0], call'.use_gae)]_vars

\* a use_gae=False call at cursor 1 has written returns[0] and returns[1]
\* and left returns[2], rewards and value_preds as they were
C19_Witness ==
    /\ call.op = "compute_returns" /\ ~call.use_gae /\ err = "ok"
    /\ steps[0] = 1
    /\ buffers["returns"][1][0] = call.next_value[0]
    /\ buffers["returns"][0][0] # 0
    /\ buffers["returns"][2][0] = 0
    /\ buffers["value_preds"][1][0] # 0
    /\ buffers["rewards"][1][0] # 0

\* C20: on the same storage and with the same next_value and gamma,
\* compute_returns with use_gae=True and tau=1 leaves in returns[t], for
\* every t below the cursor and every simulator, what compute_returns with
\* use_gae=False leaves there, whatever the masks.
C20_GaeTauOneIsDiscountedReturn ==
    [][(ComputeStep(TRUE) /\ call'.tau = 1)
         => \A t \in 0..(steps[0] - 1), n \in Envs :
               buffers'["returns"][t][n] =
                 Computed(buffers, steps[0], call'.next_value, FALSE, call'.gamma, 0)["returns"][t][n]]_vars

\* a GAE call with tau 1 and gamma 2 at cursor numsteps on two simulators,
\* one with its masks true and one with an episode boundary, value_preds
\* not zero
C20_Witness ==
    /\ call.op = "compute_returns" /\ call.use_gae /\ call.tau = 1 /\ call.gamma = 2
    /\ err = "ok"
    /\ num_envs = 2
    /\ steps[0] = numsteps
    /\ \A t \in 1..numsteps : buffers["masks"][t][0]
    /\ \E t \in 1..numsteps : ~buffers["masks"][t][1]
    /\ buffers["value_preds"][0][0] # 0
    /\ buffers["value_preds"][1][0] # 0
    /\ buffers["returns"][numsteps - 1][0] =
          buffers["rewards"][numsteps - 1][0] + 2 * call.next_value[0]
    /\ buffers["returns"][0][0] > buffers["returns"][0][1]

====
